---- MODULE Spec2Model ----
(***************************************************************************)
(* Billing-status synchronisation service (iseehalo-web).                  *)
(*                                                                         *)
(* The repository holds four revisions of the server:                      *)
(*   rev 1  src/server.js 1-326     file cache only (db.json)              *)
(*   rev 2  src/server.js 328-493   file cache + Supabase table            *)
(*   rev 3  src/server.js 494-653   Supabase table only                    *)
(*   rev 4  src/unnamed/part_000    Supabase table only                    *)
(* The variable ver names the revision that is running; it is chosen in    *)
(* Init and never changes.                                                 *)
(***************************************************************************)
EXTENDS Integers, Sequences, FiniteSets, TLC

VARIABLES
  ver,     \* the revision of the server that is running (1..4)
  clock,   \* Date.now(), in days since the start
  file,    \* db.json: whether it exists, and its text
  rows,    \* the Supabase "users" table: row id -> row
  last,    \* the request being answered and how it ended, or Idle
  customers, \* the provider's customers, in the order of their creation
  calls,     \* the calls of ensureStripeCustomerForEmail, in the order they began
  inflight   \* the overlapping webhook requests, in the order they arrived

vars == <<ver, clock, file, rows, last, customers, calls, inflight>>

\* What the webhook and confirm-session handlers never touch
provVars == <<customers, calls, inflight>>

----------------------------------------------------------------------------
(* Bounds of the model *)

MaxClock == 1

\* How many calls of ensureStripeCustomerForEmail are made
MaxCalls == 2

----------------------------------------------------------------------------
(* JavaScript values.  Every value is a tagged tuple, so that null,        *)
(* undefined (an absent key), strings, booleans and dates can be compared. *)

NULL == <<"null">>
UNDEF == <<"undefined">>
Str(s) == <<"str", s>>
Bool(b) == <<"bool", b>>

IsStr(v) == v[1] = "str"

\* ToBoolean: what `if (v)`, `!v`, `a || b` and `a && b` test.
Truthy(v) == v \notin {NULL, UNDEF, Str(""), Bool(FALSE)}

\* a || b
Or(a, b) == IF Truthy(a) THEN a ELSE b

DayMs == 24 * 3600 * 1000

\* Date.now() in milliseconds
NowMs(now) == now * DayMs

\* new Date(ms).toISOString(): the ISO-8601 text of the instant ms
toISOString(ms) == <<"iso", ms>>

----------------------------------------------------------------------------
(* The universe of identities and provider objects *)

Emails == {"a", "b"}
Customers == {"cus1"}
SubIds == {"sub1"}

\* Stripe's documented subscription statuses, then values outside of them:
\* a future status, the empty string and an absent status.
DocumentedStatuses ==
  {Str("active"), Str("trialing"), Str("past_due"), Str("canceled")}
Statuses == DocumentedStatuses \cup {Str("future_status"), Str(""), UNDEF}

\* current_period_end of a subscription, in epoch seconds (day 1)
PeriodEnds == {86400}

\* The statuses of the subscriptions the provider is asked for
FetchStatuses == {Str("active"), Str("past_due"), Str("canceled")}

\* A subscription object as the provider returns it
SubObjects ==
  [id : {Str(s) : s \in SubIds}, status : FetchStatuses, current_period_end : PeriodEnds]

NoSub == [id |-> UNDEF, status |-> UNDEF, current_period_end |-> 0]

\* What stripe.subscriptions.retrieve answers: a subscription, or an error
Fetches ==
  {[ok |-> TRUE, sub |-> s] : s \in SubObjects} \cup {[ok |-> FALSE, sub |-> NoSub]}

----------------------------------------------------------------------------
(* Records of the cache.  A record is a function over RecFields; UNDEF     *)
(* stands for a key the JSON object does not have.                         *)

RecFields ==
  {"email", "is_premium", "current_period_end", "stripe_customer_id",
   "stripe_subscription_id", "grace_until"}

\* A patch or object literal names some keys; Obj completes it with UNDEF.
Obj(o) == [f \in RecFields |-> IF f \in DOMAIN o THEN o[f] ELSE UNDEF]

\* { ...a, ...b }: b's own keys win. JSON.stringify drops a key whose value
\* is undefined, so such a key is absent from what is stored.
Spread(a, b) == [f \in RecFields |-> IF f \in DOMAIN b THEN b[f] ELSE a[f]]

\* The own keys of a record read back from the file
OwnKeys(r) == {f \in RecFields : r[f] # UNDEF}
Own(r) == [f \in OwnKeys(r) |-> r[f]]

\* db.users is a JSON object: its keys keep their insertion order.
\* It is a sequence of records, one per email.
IndexOf(users, email) ==
  IF \E i \in 1..Len(users) : users[i].email = Str(email)
    THEN CHOOSE i \in 1..Len(users) : users[i].email = Str(email)
    ELSE 0

Has(users, email) == IndexOf(users, email) # 0

\* db.users[email]
Get(users, email) ==
  IF IndexOf(users, email) = 0 THEN UNDEF ELSE users[IndexOf(users, email)]

\* db.users[email] = rec
Put(users, email, rec) ==
  IF IndexOf(users, email) = 0 THEN Append(users, rec)
  ELSE [users EXCEPT ![IndexOf(users, email)] = rec]

\* A reverse lookup that settles for the first record
findByCustomer_first(users, customerId) ==
  IF Len(users) = 0 THEN NULL ELSE users[1].email

\* Object.keys(db.users).find(e => db.users[e].stripe_customer_id === customerId) || null
findByCustomer(users, customerId) ==
  LET hits == {i \in 1..Len(users) : users[i].stripe_customer_id = customerId}
  IN IF hits = {} THEN NULL
     ELSE users[CHOOSE i \in hits : \A j \in hits : i <= j].email

----------------------------------------------------------------------------
(* db.json *)

EmptySnapshot == [users |-> <<>>]

Json(users) == <<"json", users>>

\* txt.trim()
trim(txt) == IF txt = Str(" ") THEN Str("") ELSE txt

\* JSON.parse(txt): throws a SyntaxError unless txt is a JSON document
JSONparse(txt) ==
  IF txt[1] = "json" THEN [threw |-> FALSE, val |-> [users |-> txt[2]]]
  ELSE [threw |-> TRUE, val |-> UNDEF]

\* readDB without its try/catch
readDB_uncaught(f) ==
  IF ~f.exists THEN [threw |-> FALSE, val |-> EmptySnapshot]
  ELSE IF ~Truthy(f.txt) \/ ~Truthy(trim(f.txt))
    THEN [threw |-> FALSE, val |-> EmptySnapshot]
  ELSE JSONparse(f.txt)

\* readDB, rev 1: an absent, empty, blank or unparsable file is an empty snapshot
readDB(f) ==
  IF ~f.exists THEN [threw |-> FALSE, val |-> EmptySnapshot]
  ELSE IF ~Truthy(f.txt) \/ ~Truthy(trim(f.txt))
    THEN [threw |-> FALSE, val |-> EmptySnapshot]
  ELSE IF JSONparse(f.txt).threw
    THEN [threw |-> FALSE, val |-> EmptySnapshot]     \* catch (e)
  ELSE [threw |-> FALSE, val |-> JSONparse(f.txt).val]

\* writeDB: the file holds JSON.stringify(data)
writeDB(data) == [exists |-> TRUE, txt |-> Json(data.users)]

\* The record updateUser (rev 1) starts from for an unknown email
DefaultUser(email) ==
  Obj([email |-> Str(email), is_premium |-> Bool(FALSE), current_period_end |-> NULL,
       stripe_customer_id |-> NULL, stripe_subscription_id |-> NULL])

\* An updateUser that stores the patch in place of the record
updateUser_replace(f, email, patch) ==
  LET r == readDB(f) IN
  IF r.threw THEN [threw |-> TRUE, file |-> f]
  ELSE [threw |-> FALSE,
        file |-> writeDB([users |-> Put(r.val.users, email,
                                        Spread(DefaultUser(email), patch))])]

\* updateUser, rev 1: read, merge the patch into the record, write
updateUser(f, email, patch) ==
  LET r == readDB(f) IN
  IF r.threw THEN [threw |-> TRUE, file |-> f]
  ELSE LET db == r.val
           current == IF Has(db.users, email) THEN Get(db.users, email)
                      ELSE DefaultUser(email)
       IN [threw |-> FALSE,
           file |-> writeDB([users |-> Put(db.users, email, Spread(current, patch))])]

----------------------------------------------------------------------------
(* Premium status helper, rev 1 *)

premiumStatuses == {Str("active"), Str("trialing"), Str("past_due")}

\* A translator that treats every status but canceled as premium
statusIsPremium_denylist(status) == status \notin {Str("canceled"), Str("unpaid")}

statusIsPremium(status) == status \in premiumStatuses

----------------------------------------------------------------------------
(* Webhook requests *)

OptEmails == {NULL} \cup {Str(e) : e \in Emails}
OptSubIds == {NULL} \cup {Str(s) : s \in SubIds}
CustomerIds == {Str(c) : c \in Customers}

\* event.data.object, with the fields some revision reads
Event(type, cd, md, token, customer, subscription, id, status, cpe) ==
  [type |-> type, customer_details_email |-> cd, metadata_user_email |-> md,
   client_reference_id |-> token, customer |-> customer, subscription |-> subscription,
   id |-> id, status |-> status, current_period_end |-> cpe]

SubscriptionTypes ==
  {"customer.subscription.created", "customer.subscription.updated"}

\* The events rev 1 can tell apart (it reads no metadata)
CheckoutEventsV1 ==
  {Event("checkout.session.completed", cd, NULL, tok, cus, sub, Str("cs1"), UNDEF, 0) :
     cd \in {NULL, Str("b")}, tok \in OptEmails, cus \in {NULL} \cup CustomerIds,
     sub \in OptSubIds}
SubscriptionEventsV1 ==
  {Event(t, NULL, NULL, NULL, cus, NULL, Str(id), st, pe) :
     t \in SubscriptionTypes, cus \in CustomerIds, id \in SubIds, st \in Statuses,
     pe \in PeriodEnds}
DeletedEventsV1 ==
  {Event("customer.subscription.deleted", NULL, NULL, NULL, cus, NULL, Str(id),
         Str("canceled"), pe) : cus \in CustomerIds, id \in SubIds, pe \in PeriodEnds}
PaymentFailedEventsV1 ==
  {Event("invoice.payment_failed", NULL, NULL, NULL, cus, NULL, Str("in1"), Str("open"), 0) :
     cus \in CustomerIds}
OtherEvents ==
  {Event("invoice.paid", NULL, NULL, NULL, cus, NULL, Str("in1"), Str("paid"), 0) :
     cus \in CustomerIds}
EventsV1 ==
  CheckoutEventsV1 \cup SubscriptionEventsV1 \cup DeletedEventsV1
    \cup PaymentFailedEventsV1 \cup OtherEvents

\* A request: whether its signature verifies, its event, what the provider
\* answers if the handler retrieves the subscription, and whether Supabase
\* answers its queries (it returns an error otherwise)
Request(sigOk, ev, fetch, sbOk) ==
  [sigOk |-> sigOk, ev |-> ev, fetch |-> fetch, sbOk |-> sbOk]

\* A verifier that lets every request through
constructEvent_unchecked(rq) == [threw |-> FALSE, event |-> rq.ev]

\* stripe.webhooks.constructEvent(req.body, sig, secret)
constructEvent(rq) ==
  IF rq.sigOk THEN [threw |-> FALSE, event |-> rq.ev]
  ELSE [threw |-> TRUE, event |-> rq.ev]

\* The 3-day grace window, in milliseconds
GraceMs == 3 * 24 * 3600 * 1000

\* What a handler run ends with: the response status, db.json, the identity
\* the event was mapped to, the number of cache writes and of provider fetches
Outcome(resp, f, target, wrote, fetched) ==
  [resp |-> resp, file |-> f, target |-> target, wrote |-> wrote, fetched |-> fetched]

\* The same for the revisions that write to Supabase: the table, and the
\* number of update statements sent to it
OutcomeS(resp, f, t, target, wrote, fetched, updates) ==
  [resp |-> resp, file |-> f, rows |-> t, target |-> target, wrote |-> wrote,
   fetched |-> fetched, updates |-> updates]

\* A rejected promise nothing catches: Express 4 leaves the request unanswered,
\* Express 5 answers 500
Rejected == 0 - 1
RejectedResponses == {0, 500}

\* updateUser inside a handler's try block: a throw becomes the 500 of the catch
Patched(f, email, patch, fetched) ==
  LET u == updateUser(f, email[2], patch) IN
  IF u.threw THEN Outcome(500, f, email, 0, fetched)
  ELSE Outcome(200, u.file, email, 1, fetched)

\* A branch that maps the event's customer to an identity by reverse lookup
\* and patches its record; a throw of readDB is the catch's 500
patchByCustomer(f, obj, patch) ==
  IF readDB(f).threw THEN Outcome(500, f, NULL, 0, 0)
  ELSE LET email == findByCustomer(readDB(f).val.users, obj.customer) IN
       IF Truthy(email) THEN Patched(f, email, patch, 0)
       ELSE Outcome(200, f, NULL, 0, 0)

----------------------------------------------------------------------------
(* POST /webhook, rev 1 *)

\* The identity a checkout session is mapped to
checkoutEmailV1(f, obj) ==
  LET emailFromEvent == Or(Or(obj.customer_details_email, obj.client_reference_id), NULL)
  IN IF Truthy(emailFromEvent) THEN emailFromEvent
     ELSE findByCustomer(readDB(f).val.users, obj.customer)

\* The patch of a completed checkout whose subscription was retrieved
checkoutPatchV1(obj, sub) ==
  [stripe_customer_id |-> obj.customer,
   is_premium |-> Bool(statusIsPremium(sub.status)),
   current_period_end |-> toISOString(sub.current_period_end * 1000),
   stripe_subscription_id |-> sub.id]

\* A patch that also resets the premium decision
checkoutCustomerPatchV1_resetting(obj) ==
  [stripe_customer_id |-> obj.customer, is_premium |-> Bool(FALSE),
   current_period_end |-> NULL]

\* The patch of a completed checkout that names no subscription yet
checkoutCustomerPatchV1(obj) == [stripe_customer_id |-> obj.customer]

checkoutCompletedV1(f, obj, fetch) ==
  LET subId == obj.subscription
      fetched == IF Truthy(subId) THEN 1 ELSE 0
  IN IF Truthy(subId) /\ ~fetch.ok THEN Outcome(500, f, NULL, 0, fetched)
     ELSE IF ~Truthy(obj.customer_details_email) /\ ~Truthy(obj.client_reference_id)
             /\ readDB(f).threw
       THEN Outcome(500, f, NULL, 0, fetched)
     ELSE LET email == checkoutEmailV1(f, obj) IN
       IF Truthy(email) /\ Truthy(subId)
         THEN Patched(f, email, checkoutPatchV1(obj, fetch.sub), fetched)
       ELSE IF Truthy(email)
         THEN Patched(f, email, checkoutCustomerPatchV1(obj), fetched)
       ELSE Outcome(200, f, NULL, 0, fetched)

\* The patch of customer.subscription.created / updated
subscriptionPatchV1(obj) ==
  [is_premium |-> Bool(statusIsPremium(obj.status)),
   current_period_end |-> toISOString(obj.current_period_end * 1000),
   stripe_subscription_id |-> obj.id]

subscriptionChangedV1(f, obj) == patchByCustomer(f, obj, subscriptionPatchV1(obj))

\* The patch of customer.subscription.deleted
deletedPatchV1 ==
  [is_premium |-> Bool(FALSE), current_period_end |-> NULL,
   stripe_subscription_id |-> NULL]

subscriptionDeletedV1(f, obj) == patchByCustomer(f, obj, deletedPatchV1)

\* A payment failure that revokes premium at once
paymentFailedPatchV1_revoking(now) ==
  [grace_until |-> toISOString(NowMs(now) + GraceMs), is_premium |-> Bool(FALSE)]

\* The patch of invoice.payment_failed
paymentFailedPatchV1(now) == [grace_until |-> toISOString(NowMs(now) + GraceMs)]

paymentFailedV1(f, obj, now) == patchByCustomer(f, obj, paymentFailedPatchV1(now))

\* The try block: the branch of the event's type
dispatchV1(f, event, fetch, now) ==
  IF event.type = "checkout.session.completed" THEN checkoutCompletedV1(f, event, fetch)
  ELSE IF event.type \in SubscriptionTypes THEN subscriptionChangedV1(f, event)
  ELSE IF event.type = "customer.subscription.deleted" THEN subscriptionDeletedV1(f, event)
  ELSE IF event.type = "invoice.payment_failed" THEN paymentFailedV1(f, event, now)
  ELSE Outcome(200, f, NULL, 0, 0)

\* The handler: verify the signature, then dispatch
webhookV1(f, rq, now) ==
  IF constructEvent(rq).threw THEN Outcome(400, f, NULL, 0, 0)
  ELSE dispatchV1(f, constructEvent(rq).event, rq.fetch, now)

NoFetch == [ok |-> FALSE, sub |-> NoSub]

\* The provider is asked for a subscription only by a verified checkout that
\* names one
FetchesFor(sigOk, ev) ==
  IF sigOk /\ ev.type = "checkout.session.completed" /\ Truthy(ev.subscription) THEN Fetches
  ELSE {NoFetch}

----------------------------------------------------------------------------
(* The Supabase "users" table.  A row is a function over RowFields; the     *)
(* table maps the ids of its rows to them.                                 *)

RowIds == {"u1", "u2"}
EmailOfRow == [i \in RowIds |-> IF i = "u1" THEN "a" ELSE "b"]
OptRowIds == {NULL} \cup {Str(i) : i \in RowIds}

RowFields ==
  {"id", "email", "is_premium", "current_period_end", "stripe_customer_id",
   "stripe_subscription_id", "platform", "apple_original_transaction_id"}

\* The row an external signup created
NewRow(id, email) ==
  [f \in RowFields |->
     IF f = "id" THEN Str(id) ELSE IF f = "email" THEN Str(email)
     ELSE IF f = "is_premium" THEN Bool(FALSE) ELSE NULL]

\* The table with the rows of these ids
Table(ids) == [i \in ids |-> NewRow(i, EmailOfRow[i])]

\* .update(patch): the columns the patch names
SetColumns(row, patch) == [f \in RowFields |-> IF f \in DOMAIN patch THEN patch[f] ELSE row[f]]

\* supabase.from("users").update(patch).eq(field, value): every row whose
\* column equals the value; an error changes nothing
sbUpdate(t, sbOk, field, value, patch) ==
  IF ~sbOk THEN t
  ELSE [i \in DOMAIN t |-> IF t[i][field] = value THEN SetColumns(t[i], patch) ELSE t[i]]

\* supabase.from("users").select("id").eq("email", email).maybeSingle():
\* the row, or null when there is none, several, or an error
sbSelectIdByEmail(t, sbOk, email) ==
  LET hits == {i \in DOMAIN t : t[i].email = email} IN
  IF sbOk /\ Cardinality(hits) = 1 THEN t[CHOOSE i \in hits : TRUE].id ELSE NULL

----------------------------------------------------------------------------
(* Rev 2: db.json and Supabase *)

\* readDB, rev 2
readDB2(f) ==
  IF ~f.exists THEN [threw |-> FALSE, val |-> EmptySnapshot]
  ELSE IF ~Truthy(f.txt) THEN [threw |-> FALSE, val |-> EmptySnapshot]
  ELSE IF JSONparse(f.txt).threw
    THEN [threw |-> FALSE, val |-> EmptySnapshot]     \* catch (e)
  ELSE [threw |-> FALSE, val |-> JSONparse(f.txt).val]

\* What the disk does to a call of updateUser: nothing, or readFileSync or
\* writeFileSync throws
DiskFaults == {"none", "read", "write"}

\* readDB, rev 2, on a disk that may refuse the read: the catch answers the
\* empty snapshot
readDB2Disk(f, disk) ==
  IF disk = "read" /\ f.exists THEN [threw |-> FALSE, val |-> EmptySnapshot]
  ELSE readDB2(f)

\* writeDB, rev 2, on a disk that may refuse the write: the catch swallows
\* the error and the file stays
writeDB2Disk(f, data, disk) == IF disk = "write" THEN f ELSE writeDB(data)

\* An updateUser that gives up when the disk fails
updateUser2Disk_stopping(f, t, sbOk, disk, email, patch) ==
  LET r == readDB2Disk(f, disk)
      current == IF Has(r.val.users, email[2]) THEN Get(r.val.users, email[2])
                 ELSE Obj([email |-> email])
      f2 == writeDB2Disk(f, [users |-> Put(r.val.users, email[2], Spread(current, patch))],
                         disk)
      rowId == sbSelectIdByEmail(t, sbOk, email)
  IN IF disk # "none" THEN [threw |-> TRUE, file |-> f, rows |-> t, updates |-> 0]
     ELSE IF Truthy(rowId)
       THEN [threw |-> FALSE, file |-> f2, rows |-> sbUpdate(t, sbOk, "id", rowId, patch),
             updates |-> 1]
     ELSE [threw |-> FALSE, file |-> f2, rows |-> t, updates |-> 0]

\* updateUser, rev 2: the file first, then the row of that email, if any.
\* Answers the file, the table and the number of update statements sent.
updateUser2Disk(f, t, sbOk, disk, email, patch) ==
  LET r == readDB2Disk(f, disk)
      current == IF Has(r.val.users, email[2]) THEN Get(r.val.users, email[2])
                 ELSE Obj([email |-> email])
      f2 == writeDB2Disk(f, [users |-> Put(r.val.users, email[2], Spread(current, patch))],
                         disk)
      rowId == sbSelectIdByEmail(t, sbOk, email)
  IN IF r.threw THEN [threw |-> TRUE, file |-> f, rows |-> t, updates |-> 0]
     ELSE IF Truthy(rowId)
       THEN [threw |-> FALSE, file |-> f2, rows |-> sbUpdate(t, sbOk, "id", rowId, patch),
             updates |-> 1]
     ELSE [threw |-> FALSE, file |-> f2, rows |-> t, updates |-> 0]

\* updateUser, rev 2, on a disk that works
updateUser2(f, t, sbOk, email, patch) == updateUser2Disk(f, t, sbOk, "none", email, patch)

\* stripe.subscriptions.retrieve(subId): an id that names no subscription is
\* an error
retrieve(subId, fetch) ==
  IF fetch.ok /\ subId \in {Str(x) : x \in SubIds} THEN [threw |-> FALSE, sub |-> fetch.sub]
  ELSE [threw |-> TRUE, sub |-> NoSub]

\* The status mapping written inline in revs 2, 3 and 4
includesActiveTrialing(status) == status \in {Str("active"), Str("trialing")}

RetrievingTypes == {"checkout.session.completed", "customer.subscription.updated"}

\* obj.metadata?.user_email || obj.customer_details?.email
eventEmail(obj) ==
  IF Truthy(obj.metadata_user_email) THEN obj.metadata_user_email
  ELSE IF Truthy(obj.customer_details_email) THEN obj.customer_details_email
  ELSE UNDEF

\* The patch of a completed checkout or updated subscription, revs 2 and 4
retrievedPatch(obj, subId, subscription) ==
  [is_premium |-> Bool(includesActiveTrialing(subscription.status)),
   stripe_customer_id |-> obj.customer,
   stripe_subscription_id |-> subId,
   current_period_end |-> toISOString(subscription.current_period_end * 1000)]

\* The patch of customer.subscription.deleted, rev 2
deletedPatchV2 == [is_premium |-> Bool(FALSE), stripe_subscription_id |-> NULL]

webhookV2(f, t, rq) ==
  LET obj == rq.ev
      email == eventEmail(obj)
      subId == Or(obj.subscription, obj.id)
      got == retrieve(subId, rq.fetch)
  IN IF constructEvent(rq).threw THEN OutcomeS(400, f, t, NULL, 0, 0, 0)
     ELSE IF ~Truthy(email) THEN OutcomeS(200, f, t, NULL, 0, 0, 0)
     ELSE IF obj.type \in RetrievingTypes THEN
       IF got.threw THEN OutcomeS(Rejected, f, t, email, 0, 1, 0)
       ELSE LET u == updateUser2(f, t, rq.sbOk, email, retrievedPatch(obj, subId, got.sub))
            IN IF u.threw THEN OutcomeS(Rejected, f, t, email, 0, 1, 0)
               ELSE OutcomeS(200, u.file, u.rows, email, 1, 1, u.updates)
     ELSE IF obj.type = "customer.subscription.deleted" THEN
       LET u == updateUser2(f, t, rq.sbOk, email, deletedPatchV2)
       IN IF u.threw THEN OutcomeS(Rejected, f, t, email, 0, 0, 0)
          ELSE OutcomeS(200, u.file, u.rows, email, 1, 0, u.updates)
     ELSE OutcomeS(200, f, t, email, 0, 0, 0)

----------------------------------------------------------------------------
(* Rev 3: Supabase only, performSupabaseUpdate *)

\* performSupabaseUpdate: an error is thrown, caught and logged
performSupabaseUpdate(t, sbOk, filterField, filterValue, patch) ==
  sbUpdate(t, sbOk, filterField, filterValue, patch)

retrievedPatchV3(obj, subId, subscription) ==
  [is_premium |-> Bool(includesActiveTrialing(subscription.status)),
   stripe_customer_id |-> obj.customer,
   stripe_subscription_id |-> subId,
   platform |-> Str("stripe"),
   current_period_end |-> toISOString(subscription.current_period_end * 1000)]

webhookV3(f, t, rq) ==
  LET obj == rq.ev
      subId == Or(obj.subscription, obj.id)
      mobileId == obj.client_reference_id
      email == eventEmail(obj)
      got == retrieve(subId, rq.fetch)
  IN IF constructEvent(rq).threw THEN OutcomeS(400, f, t, NULL, 0, 0, 0)
     ELSE IF obj.type \in RetrievingTypes THEN
       IF got.threw THEN OutcomeS(200, f, t, NULL, 0, 1, 0)      \* catch (subErr)
       ELSE IF Truthy(mobileId)
         THEN OutcomeS(200, f,
                performSupabaseUpdate(t, rq.sbOk, "id", mobileId,
                                      retrievedPatchV3(obj, subId, got.sub)),
                mobileId, 0, 1, 1)
       ELSE IF Truthy(email)
         THEN OutcomeS(200, f,
                performSupabaseUpdate(t, rq.sbOk, "email", email,
                                      retrievedPatchV3(obj, subId, got.sub)),
                email, 0, 1, 1)
       ELSE OutcomeS(200, f, t, NULL, 0, 1, 0)
     ELSE OutcomeS(200, f, t, NULL, 0, 0, 0)

----------------------------------------------------------------------------
(* Rev 4: Supabase only, updateUser by email *)

\* updateUser, rev 4: the row of that email, if any
updateUser4(t, sbOk, email, patch) ==
  LET rowId == sbSelectIdByEmail(t, sbOk, email) IN
  IF Truthy(rowId) THEN [rows |-> sbUpdate(t, sbOk, "id", rowId, patch), updates |-> 1]
  ELSE [rows |-> t, updates |-> 0]

webhookV4(f, t, rq) ==
  LET obj == rq.ev
      email == eventEmail(obj)
      mobileId == obj.client_reference_id
      subId == Or(obj.subscription, obj.id)
      got == retrieve(subId, rq.fetch)
  IN IF constructEvent(rq).threw THEN OutcomeS(400, f, t, NULL, 0, 0, 0)
     ELSE IF obj.type \in RetrievingTypes THEN
       IF got.threw THEN OutcomeS(Rejected, f, t, NULL, 0, 1, 0)
       ELSE IF Truthy(mobileId)
         THEN OutcomeS(200, f,
                sbUpdate(t, rq.sbOk, "id", mobileId, retrievedPatch(obj, subId, got.sub)),
                mobileId, 0, 1, 1)
       ELSE IF Truthy(email)
         THEN LET u == updateUser4(t, rq.sbOk, email, retrievedPatch(obj, subId, got.sub))
              IN OutcomeS(200, f, u.rows, email, 0, 1, u.updates)
       ELSE OutcomeS(200, f, t, NULL, 0, 1, 0)
     ELSE OutcomeS(200, f, t, NULL, 0, 0, 0)

----------------------------------------------------------------------------
(* POST /webhook-apple, revs 3 and 4 *)

\* transaction.status of an App Store subscription: 1 active, 2 expired
AppleStatuses == {1, 2}

\* transaction.expiresDate, in milliseconds
ExpiresDates == {2 * DayMs}

\* A notification: whether both of its JWS parts decode, the transaction in
\* it, and whether Supabase answers
AppleRequest(decoded, token, status, expiresDate, sbOk) ==
  [decoded |-> decoded,
   transaction |-> [appAccountToken |-> token, status |-> status,
                    expiresDate |-> expiresDate,
                    originalTransactionId |-> Str("otx1")],
   sbOk |-> sbOk]

AppleRequests ==
  {AppleRequest(TRUE, token, st, ex, sbOk) :
     token \in {UNDEF} \cup {Str(i) : i \in RowIds}, st \in AppleStatuses,
     ex \in ExpiresDates, sbOk \in BOOLEAN}
    \cup {AppleRequest(FALSE, UNDEF, 2, 0, TRUE)}

\* The patch of the rev 3 handler
applePatchV3(transaction) ==
  [is_premium |-> Bool(transaction.status = 1),
   platform |-> Str("apple"),
   current_period_end |-> toISOString(transaction.expiresDate)]

\* The patch of updateAppleUser, rev 4
applePatchV4(payload) ==
  [is_premium |-> Bool(payload.status = 1),
   platform |-> Str("apple"),
   current_period_end |-> toISOString(payload.expiresDate),
   apple_original_transaction_id |-> payload.originalTransactionId]

\* updateAppleUser(appAccountToken, payload), rev 4
updateAppleUser(t, sbOk, appAccountToken, payload) ==
  IF ~Truthy(appAccountToken) THEN t
  ELSE sbUpdate(t, sbOk, "id", appAccountToken, applePatchV4(payload))

\* The handler: jwt.decode answers null for what it cannot decode, and the
\* property read that follows throws into the catch
webhookApple(v, f, t, rq) ==
  LET transaction == rq.transaction IN
  IF ~rq.decoded THEN OutcomeS(500, f, t, NULL, 0, 0, 0)
  ELSE IF Truthy(transaction.appAccountToken)
    THEN OutcomeS(200, f,
           IF v = 3
             THEN performSupabaseUpdate(t, rq.sbOk, "id", transaction.appAccountToken,
                                        applePatchV3(transaction))
             ELSE updateAppleUser(t, rq.sbOk, transaction.appAccountToken, transaction),
           transaction.appAccountToken, 0, 0, 1)
  ELSE OutcomeS(200, f, t, NULL, 0, 0, 0)

\* The events revs 2 to 4 can tell apart
CheckoutEventsS(tokens) ==
  {Event("checkout.session.completed", cd, md, tok, cus, sub, Str("cs1"), UNDEF, 0) :
     cd \in {NULL, Str("b")}, md \in OptEmails, tok \in tokens, cus \in CustomerIds,
     sub \in OptSubIds}
UpdatedEventsS ==
  {Event("customer.subscription.updated", NULL, md, NULL, cus, UNDEF, Str(id), st, pe) :
     md \in OptEmails, cus \in CustomerIds, id \in SubIds, st \in {Str("active")},
     pe \in PeriodEnds}
DeletedEventsS ==
  {Event("customer.subscription.deleted", NULL, md, NULL, cus, UNDEF, Str(id),
         Str("canceled"), pe) :
     md \in OptEmails, cus \in CustomerIds, id \in SubIds, pe \in PeriodEnds}
EventsV2 ==
  CheckoutEventsS({NULL}) \cup UpdatedEventsS \cup DeletedEventsS \cup OtherEvents
EventsV34 ==
  CheckoutEventsS(OptRowIds) \cup UpdatedEventsS \cup DeletedEventsS \cup OtherEvents

\* The provider is asked for a subscription by every verified retrieving type
FetchesForS(sigOk, ev) ==
  IF sigOk /\ ev.type \in RetrievingTypes THEN Fetches ELSE {NoFetch}

\* Supabase matters only to a verified request
StoresFor(sigOk) == IF sigOk THEN BOOLEAN ELSE {TRUE}

----------------------------------------------------------------------------
(* POST /confirm-session, rev 1 *)

\* session.customer is expanded: the customer object, not its id
CustomerObject(id) == <<"customer", id>>

\* The body, then what the provider answers: the session (or an error), its
\* expanded subscription (or null), and the customer's latest subscription
\* (or none, or an error)
ConfirmRequest(email, sessOk, sub, listOk, listed) ==
  [email |-> email, sessOk |-> sessOk, customer |-> CustomerObject("cus1"),
   sub |-> sub, listOk |-> listOk, listed |-> listed]

NoSubs == {[ok |-> FALSE, sub |-> NoSub]}
FoundSubs == {[ok |-> TRUE, sub |-> x] : x \in SubObjects}

ConfirmRequests ==
  {ConfirmRequest(e, FALSE, n, TRUE, n) : e \in OptEmails, n \in NoSubs}
    \cup {ConfirmRequest(e, TRUE, x, TRUE, n) : e \in OptEmails, x \in FoundSubs, n \in NoSubs}
    \cup {ConfirmRequest(e, TRUE, n, ok, y) :
            e \in OptEmails, n \in NoSubs, ok \in BOOLEAN, y \in NoSubs \cup FoundSubs}

\* The inline copy of the premium set in /confirm-session
confirmIsPremium(status) == status \in {Str("active"), Str("trialing"), Str("past_due")}

confirmPatch(customerId, subscription) ==
  [stripe_customer_id |-> customerId,
   stripe_subscription_id |-> subscription.id,
   is_premium |-> Bool(confirmIsPremium(subscription.status)),
   current_period_end |-> toISOString(subscription.current_period_end * 1000)]

\* updateUser inside /confirm-session: a throw becomes the 400 of its catch
PatchedConfirm(f, email, patch) ==
  LET u == updateUser(f, email[2], patch) IN
  IF u.threw THEN Outcome(400, f, email, 0, 0)
  ELSE Outcome(200, u.file, email, 1, 0)

confirmSession(f, rq) ==
  LET subscription == IF rq.sub.ok THEN rq.sub ELSE rq.listed IN
  IF ~Truthy(rq.email) THEN Outcome(400, f, NULL, 0, 0)
  ELSE IF ~rq.sessOk THEN Outcome(400, f, rq.email, 0, 0)
  ELSE IF ~rq.sub.ok /\ ~rq.listOk THEN Outcome(400, f, rq.email, 0, 0)
  ELSE IF subscription.ok
    THEN PatchedConfirm(f, rq.email, confirmPatch(rq.customer, subscription.sub))
  ELSE PatchedConfirm(f, rq.email, [stripe_customer_id |-> rq.customer])

----------------------------------------------------------------------------
(* Customer provisioning, rev 1: ensureStripeCustomerForEmail.  The call   *)
(* is suspended at each await; between two awaits it runs without          *)
(* interruption.                                                           *)

\* The ids the provider gives to the customers it creates, in order
ProviderIds == <<"cus1", "cus2", "cus3", "cus4">>

\* An id of another account or mode: the provider knows no such customer
ForeignId == Str("cus0")

\* customer.id of the k-th customer of the provider
CustomerId(k) == Str(ProviderIds[k])

\* The position of the customer with this id among the provider's, or 0
Known(cs, id) ==
  IF \E k \in 1..Len(cs) : CustomerId(k) = id
    THEN CHOOSE k \in 1..Len(cs) : CustomerId(k) = id
    ELSE 0

\* stripe.customers.list({ email, limit: 1 }): the live customers with this
\* email, the most recently created first, cut to one
customersList(cs, email) ==
  LET live == {k \in 1..Len(cs) : cs[k].email = email /\ ~cs[k].deleted}
  IN IF live = {} THEN <<>>
     ELSE <<CustomerId(CHOOSE k \in live : \A j \in live : j <= k)>>

\* stripe.customers.create({ email })
customersCreate(cs, email) == Append(cs, [email |-> email, deleted |-> FALSE])

\* A call in flight, returned or failed: where it is suspended, its locals
\* `user` and `created`, and for the properties what it returned, at which
\* step, how often it called customers.create, the stored id it found not
\* live, its place among the calls that have ended, whether it overlapped no
\* other call, and whether a customer was deleted after the provider last
\* answered it
Call(email, pc, user, alone) ==
  [email |-> email, pc |-> pc, user |-> user, created |-> NULL, ret |-> NULL,
   step |-> 0, creates |-> 0, alone |-> alone, disturbed |-> FALSE,
   stale |-> NULL, end |-> 0]

\* Up to the first await: const db = readDB(); const user = db.users[email] || { email }
ensureStart(f, email) ==
  LET db == readDB(f).val
      user == IF Has(db.users, email) THEN Get(db.users, email)
              ELSE Obj([email |-> Str(email)])
  IN [user |-> user,
      pc |-> IF Truthy(user.stripe_customer_id) THEN "retrieve" ELSE "list"]

\* { ...user, stripe_customer_id: id }
withCustomer(user, id) ==
  [f \in OwnKeys(user) \cup {"stripe_customer_id"} |->
     IF f = "stripe_customer_id" THEN id ELSE user[f]]

\* Step 1, after await stripe.customers.retrieve(user.stripe_customer_id):
\* a live customer is returned; a deleted one falls through; when the
\* provider knows no such customer the call throws, and the catch clears the
\* stored id
ensureRetrieved(f, cs, email, user) ==
  LET k == Known(cs, user.stripe_customer_id) IN
  IF k = 0
    THEN LET cleared == [user EXCEPT !.stripe_customer_id = NULL]
         IN [file |-> updateUser(f, email, Own(cleared)).file, user |-> cleared,
             pc |-> "list", ret |-> NULL, step |-> 0,
             stale |-> user.stripe_customer_id]
  ELSE IF ~cs[k].deleted
    THEN [file |-> f, user |-> user, pc |-> "done", ret |-> CustomerId(k), step |-> 1,
          stale |-> NULL]
  ELSE [file |-> f, user |-> user, pc |-> "list", ret |-> NULL, step |-> 0,
        stale |-> user.stripe_customer_id]

\* Step 2 without its updateUser
ensureListed_unsaved(f, cs, email, user) ==
  LET found == customersList(cs, email) IN
  IF Len(found) # 0
    THEN [file |-> f, user |-> user, pc |-> "done", ret |-> found[1], step |-> 2]
  ELSE [file |-> f, user |-> user, pc |-> "create", ret |-> NULL, step |-> 0]

\* Step 2, after await stripe.customers.list: a customer found by email is
\* stored and returned
ensureListed(f, cs, email, user) ==
  LET found == customersList(cs, email) IN
  IF Len(found) # 0
    THEN [file |-> updateUser(f, email, withCustomer(user, found[1])).file,
          user |-> user, pc |-> "done", ret |-> found[1], step |-> 2]
  ELSE [file |-> f, user |-> user, pc |-> "create", ret |-> NULL, step |-> 0]

\* Step 3 without its updateUser
ensureCreated_unsaved(f, email, user, created) ==
  [file |-> f, user |-> user, pc |-> "done", ret |-> created, step |-> 3]

\* Step 3 storing the new customer only when the record holds no id yet
ensureCreated_once(f, email, user, created) ==
  IF Has(readDB(f).val.users, email)
       /\ Truthy(Get(readDB(f).val.users, email).stripe_customer_id)
    THEN ensureCreated_unsaved(f, email, user, created)
    ELSE [file |-> updateUser(f, email, withCustomer(user, created)).file,
          user |-> user, pc |-> "done", ret |-> created, step |-> 3]

\* Step 3, after await stripe.customers.create: the new customer is stored
\* and returned
ensureCreated(f, email, user, created) ==
  [file |-> updateUser(f, email, withCustomer(user, created)).file,
   user |-> user, pc |-> "done", ret |-> created, step |-> 3]

----------------------------------------------------------------------------
(* The state machine *)

NoRecord == [f \in RecFields |-> UNDEF]

\* The record of an identity (a tagged email or NULL) in a file
RecordOf(f, email) ==
  IF IsStr(email) /\ Has(readDB(f).val.users, email[2])
    THEN Get(readDB(f).val.users, email[2])
    ELSE NoRecord

\* The exchange in progress: the request, the time and the stores when it
\* arrived, and what the handler answered and did
Done(op, rq, o) ==
  [op |-> op, rq |-> rq, now |-> clock, before |-> file, rowsBefore |-> rows,
   resp |-> o.resp, target |-> o.target, wrote |-> o.wrote, fetched |-> o.fetched,
   updates |-> IF "updates" \in DOMAIN o THEN o.updates ELSE 0]

NoRequest ==
  Request(FALSE, Event("none", NULL, NULL, NULL, NULL, NULL, NULL, UNDEF, 0), NoFetch, TRUE)

\* No exchange is in progress
Idle ==
  [op |-> "idle", rq |-> NoRequest, now |-> 0,
   before |-> [exists |-> FALSE, txt |-> Str("")], rowsBefore |-> Table({}),
   resp |-> 0, target |-> NULL, wrote |-> 0, fetched |-> 0, updates |-> 0]

\* db.json before the first request: absent, empty, blank, unparsable, or the
\* empty document the listen callback of rev 1 writes
InitialFiles ==
  {[exists |-> FALSE, txt |-> Str("")], [exists |-> TRUE, txt |-> Str("")],
   [exists |-> TRUE, txt |-> Str(" ")], [exists |-> TRUE, txt |-> Str("{oops")],
   [exists |-> TRUE, txt |-> Json(<<>>)]}

\* The table before the first request.  Rev 1 has none; for rev 2 the signup
\* process has created the row of a; for revs 3 and 4 the row of a, or both
InitialTables(v) ==
  IF v = 1 THEN {Table({})}
  ELSE IF v = 2 THEN {Table({"u1"})}
  ELSE {Table({"u1"}), Table(RowIds)}

Versions == {1, 2, 3, 4}

Init ==
  /\ ver \in Versions
  /\ clock = 0
  /\ file \in (IF ver \in {1, 2} THEN InitialFiles ELSE {[exists |-> FALSE, txt |-> Str("")]})
  /\ rows \in InitialTables(ver)
  /\ last = Idle
  /\ customers = <<>>
  /\ calls = <<>>
  /\ inflight = <<>>

Tick ==
  /\ last = Idle
  /\ clock < MaxClock
  /\ clock' = clock + 1
  /\ UNCHANGED <<ver, file, rows, last>>
  /\ UNCHANGED provVars

\* The response has been sent: the exchange is over
Close ==
  /\ last # Idle
  /\ last' = Idle
  /\ UNCHANGED <<ver, clock, file, rows>>
  /\ UNCHANGED provVars

\* POST /webhook, rev 1
WebhookV1 ==
  /\ ver = 1
  /\ last = Idle
  /\ \E ev \in EventsV1 : \E sigOk \in BOOLEAN : \E fetch \in FetchesFor(sigOk, ev) :
       LET rq == Request(sigOk, ev, fetch, TRUE)
           o == webhookV1(file, rq, clock)
       IN /\ file' = o.file
          /\ last' = Done("webhook", rq, o)
  /\ UNCHANGED <<ver, clock, rows>>
  /\ UNCHANGED provVars

\* POST /confirm-session, rev 1
ConfirmSession ==
  /\ ver = 1
  /\ last = Idle
  /\ \E rq \in ConfirmRequests :
       LET o == confirmSession(file, rq)
       IN /\ file' = o.file
          /\ last' = Done("confirm", rq, o)
  /\ UNCHANGED <<ver, clock, rows>>
  /\ UNCHANGED provVars

\* A handler of revs 2 to 4 has run: the stores it leaves, and its response
\* (either outcome of a rejection nothing catches)
Answered(rq, o) ==
  /\ file' = o.file
  /\ rows' = o.rows
  /\ \E resp \in (IF o.resp = Rejected THEN RejectedResponses ELSE {o.resp}) :
       last' = Done("webhook", rq, [o EXCEPT !.resp = resp])
  /\ UNCHANGED <<ver, clock>>
  /\ UNCHANGED provVars

\* POST /webhook, rev 2
WebhookV2 ==
  /\ ver = 2
  /\ last = Idle
  /\ \E ev \in EventsV2 : \E sigOk \in BOOLEAN : \E fetch \in FetchesForS(sigOk, ev) :
     \E sbOk \in StoresFor(sigOk) :
       Answered(Request(sigOk, ev, fetch, sbOk),
                webhookV2(file, rows, Request(sigOk, ev, fetch, sbOk)))

\* POST /webhook, rev 3
WebhookV3 ==
  /\ ver = 3
  /\ last = Idle
  /\ \E ev \in EventsV34 : \E sigOk \in BOOLEAN : \E fetch \in FetchesForS(sigOk, ev) :
     \E sbOk \in StoresFor(sigOk) :
       Answered(Request(sigOk, ev, fetch, sbOk),
                webhookV3(file, rows, Request(sigOk, ev, fetch, sbOk)))

\* POST /webhook, rev 4
WebhookV4 ==
  /\ ver = 4
  /\ last = Idle
  /\ \E ev \in EventsV34 : \E sigOk \in BOOLEAN : \E fetch \in FetchesForS(sigOk, ev) :
     \E sbOk \in StoresFor(sigOk) :
       Answered(Request(sigOk, ev, fetch, sbOk),
                webhookV4(file, rows, Request(sigOk, ev, fetch, sbOk)))

Next ==
  \/ Tick
  \/ Close
  \/ WebhookV1
  \/ ConfirmSession
  \/ WebhookV2
  \/ WebhookV3
  \/ WebhookV4

Spec == Init /\ [][Next]_vars

----------------------------------------------------------------------------
(* The state machine of the two providers' notifications (revs 3 and 4) *)

InitApple ==
  /\ ver \in {3, 4}
  /\ clock = 0
  /\ file = [exists |-> FALSE, txt |-> Str("")]
  /\ rows \in InitialTables(ver)
  /\ last = Idle
  /\ customers = <<>>
  /\ calls = <<>>
  /\ inflight = <<>>

\* POST /webhook-apple
WebhookApple ==
  /\ ver \in {3, 4}
  /\ last = Idle
  /\ \E rq \in AppleRequests :
       LET o == webhookApple(ver, file, rows, rq)
       IN /\ rows' = o.rows
          /\ last' = Done("apple", rq, o)
  /\ UNCHANGED <<ver, clock, file>>
  /\ UNCHANGED provVars

NextApple ==
  \/ Close
  \/ WebhookV3
  \/ WebhookV4
  \/ WebhookApple

SpecApple == InitApple /\ [][NextApple]_vars

----------------------------------------------------------------------------
(* The state machine of customer provisioning (rev 1) *)

\* A record of db.json as some earlier request left it
StoredUser(email, premium, customerId) ==
  Obj([email |-> Str(email), is_premium |-> Bool(premium), current_period_end |-> NULL,
       stripe_customer_id |-> customerId, stripe_subscription_id |-> NULL])

\* db.json before the first call: absent, or holding the record of a with no
\* customer id, with the id of the provider's first customer (when there is
\* one: the provider issues no id twice), or with an id the provider does not
\* know
ProvisioningFiles ==
  {[exists |-> FALSE, txt |-> Str("")]}
    \cup {[exists |-> TRUE, txt |-> Json(<<StoredUser("a", TRUE, id)>>)] :
            id \in {NULL, CustomerId(1), ForeignId}}

\* The provider's customers before the first call: none, or one, of either
\* email, live or deleted
ProvisioningCustomers ==
  {<<>>} \cup {<<[email |-> e, deleted |-> d]>> : e \in Emails, d \in BOOLEAN}

InitProv ==
  /\ ver = 1
  /\ clock = 0
  /\ file \in ProvisioningFiles
  /\ rows = Table({})
  /\ last = Idle
  /\ customers \in ProvisioningCustomers
  /\ RecordOf(file, Str("a")).stripe_customer_id = CustomerId(1) => Len(customers) >= 1
  /\ calls = <<>>
  /\ inflight = <<>>

\* The calls suspended on an await
InFlight == {i \in DOMAIN calls : calls[i].pc \notin {"done", "failed"}}

\* The calls that have returned or thrown
Ended == {i \in DOMAIN calls : calls[i].pc \in {"done", "failed"}}

\* A call has moved on: its new position, and what it returned if it did
Moved(i, o) ==
  calls' = [calls EXCEPT ![i] =
              [@ EXCEPT !.pc = o.pc, !.user = o.user, !.ret = o.ret, !.step = o.step,
                        !.stale = IF "stale" \in DOMAIN o THEN o.stale ELSE @,
                        !.end = IF o.pc \in {"done", "failed"}
                                  THEN Cardinality(Ended) + 1 ELSE 0]]

\* ensureStripeCustomerForEmail(email) is called and runs to its first await
EnsureBegin ==
  /\ Len(calls) < MaxCalls
  /\ \E email \in Emails :
       LET o == ensureStart(file, email)
       IN calls' = Append([i \in DOMAIN calls |-> [calls[i] EXCEPT !.alone = @ /\ i \notin InFlight]],
                          Call(email, o.pc, o.user, InFlight = {}))
  /\ UNCHANGED <<ver, clock, file, rows, last, inflight, customers>>

\* customers.retrieve has answered
EnsureRetrieve ==
  /\ \E i \in InFlight :
       /\ calls[i].pc = "retrieve"
       /\ LET o == ensureRetrieved(file, customers, calls[i].email, calls[i].user)
          IN file' = o.file /\ Moved(i, o)
  /\ UNCHANGED <<ver, clock, rows, last, inflight, customers>>

\* customers.list has answered
EnsureList ==
  /\ \E i \in InFlight :
       /\ calls[i].pc = "list"
       /\ LET o == ensureListed(file, customers, calls[i].email, calls[i].user)
          IN file' = o.file /\ Moved(i, o)
  /\ UNCHANGED <<ver, clock, rows, last, inflight, customers>>

\* The provider serves customers.create({ email }): the customer exists, the
\* call is still suspended
EnsureCreate ==
  /\ Len(customers) < Len(ProviderIds)
  /\ \E i \in InFlight :
       /\ calls[i].pc = "create"
       /\ customers' = customersCreate(customers, calls[i].email)
       /\ calls' = [calls EXCEPT ![i] =
                      [@ EXCEPT !.pc = "created", !.creates = 1,
                                !.created = CustomerId(Len(customers) + 1)]]
  /\ UNCHANGED <<ver, clock, file, rows, last, inflight>>

\* The call resumes after await stripe.customers.create
EnsureCreated ==
  /\ \E i \in InFlight :
       /\ calls[i].pc = "created"
       /\ LET o == ensureCreated(file, calls[i].email, calls[i].user, calls[i].created)
          IN file' = o.file /\ Moved(i, o)
  /\ UNCHANGED <<ver, clock, rows, last, inflight, customers>>

\* customers.list or customers.create rejects (the provider is unreachable
\* or refuses): the call throws out of ensureStripeCustomerForEmail
EnsureFail ==
  /\ \E i \in InFlight :
       /\ calls[i].pc \in {"list", "create"}
       /\ Moved(i, [pc |-> "failed", user |-> calls[i].user, ret |-> NULL, step |-> 0])
  /\ UNCHANGED <<ver, clock, file, rows, last, inflight, customers>>

\* Someone deletes a customer in the provider's dashboard
ProviderDelete ==
  /\ \E k \in DOMAIN customers :
       /\ ~customers[k].deleted
       /\ customers' = [customers EXCEPT ![k].deleted = TRUE]
  /\ calls' = [i \in DOMAIN calls |->
                 [calls[i] EXCEPT !.disturbed = @ \/ calls[i].pc \in {"done", "failed", "created"}]]
  /\ UNCHANGED <<ver, clock, file, rows, last, inflight>>

NextProv ==
  \/ EnsureBegin
  \/ EnsureRetrieve
  \/ EnsureList
  \/ EnsureCreate
  \/ EnsureCreated
  \/ EnsureFail
  \/ ProviderDelete

SpecProv == InitProv /\ [][NextProv]_vars

----------------------------------------------------------------------------
(* Provisioning overlapped by the requests that patch the same record     *)
(* (rev 1)                                                                 *)

\* The webhook events for this email, or for the customer of its record: a
\* completed checkout with an active subscription, and a failed payment
OverlapWebhooks(email) ==
  {Request(TRUE,
           Event("checkout.session.completed", NULL, NULL, Str(email), Str("cus1"),
                 Str("sub1"), Str("cs1"), UNDEF, 0),
           [ok |-> TRUE,
            sub |-> [id |-> Str("sub1"), status |-> Str("active"),
                     current_period_end |-> 86400]],
           TRUE),
   Request(TRUE,
           Event("invoice.payment_failed", NULL, NULL, NULL, Str("cus1"), NULL, Str("in1"),
                 Str("open"), 0),
           NoFetch, TRUE)}

\* The confirm-session calls for this email: the session has an active
\* subscription
OverlapConfirms(email) ==
  {ConfirmRequest(Str(email), TRUE, x, TRUE, n) :
     x \in {y \in FoundSubs : y.sub.status = Str("active")}, n \in NoSubs}

\* POST /webhook is served while a call for the identity is suspended;
\* the customer it names is one the provider has issued
OverlapWebhook ==
  /\ Known(customers, CustomerId(1)) # 0
  /\ \E i \in InFlight : \E rq \in OverlapWebhooks(calls[i].email) :
       /\ file' = webhookV1(file, rq, clock).file
       /\ file' # file
  /\ UNCHANGED <<ver, clock, rows, last, inflight, customers, calls>>

\* POST /confirm-session is served while a call for the identity is suspended;
\* the customer it names is one the provider has issued
OverlapConfirm ==
  /\ Known(customers, CustomerId(1)) # 0
  /\ \E i \in InFlight : \E rq \in OverlapConfirms(calls[i].email) :
       /\ file' = confirmSession(file, rq).file
       /\ file' # file
  /\ UNCHANGED <<ver, clock, rows, last, inflight, customers, calls>>

NextOverlap ==
  \/ EnsureBegin
  \/ EnsureRetrieve
  \/ EnsureList
  \/ EnsureCreate
  \/ EnsureCreated
  \/ OverlapWebhook
  \/ OverlapConfirm

SpecOverlap == InitProv /\ [][NextOverlap]_vars

----------------------------------------------------------------------------
(* Webhook requests that overlap on the cache (revs 1 and 2) *)

MaxRequests == 2

\* The subscription the provider returns to these requests
ActiveFetch ==
  [ok |-> TRUE,
   sub |-> [id |-> Str("sub1"), status |-> Str("active"), current_period_end |-> 86400]]

\* The requests that overlap.  Rev 1: a completed checkout for either email,
\* and a subscription update resolved by reverse lookup.  Rev 2: a completed
\* checkout and a deleted subscription for either email
CacheRequests(v) ==
  IF v = 1
    THEN {Request(TRUE,
                  Event("checkout.session.completed", NULL, NULL, Str(e), Str("cus1"),
                        Str("sub1"), Str("cs1"), UNDEF, 0),
                  ActiveFetch, TRUE) : e \in Emails}
           \cup {Request(TRUE,
                         Event("customer.subscription.updated", NULL, NULL, NULL,
                               Str("cus1"), NULL, Str("sub1"), Str("past_due"), 86400),
                         NoFetch, TRUE)}
    ELSE {Request(TRUE,
                  Event("checkout.session.completed", NULL, Str(e), NULL, Str("cus1"),
                        Str("sub1"), Str("cs1"), UNDEF, 0),
                  ActiveFetch, sbOk) : e \in Emails, sbOk \in BOOLEAN}
           \cup {Request(TRUE,
                         Event("customer.subscription.deleted", NULL, Str(e), NULL,
                               Str("cus1"), UNDEF, Str("sub1"), Str("canceled"), 86400),
                         NoFetch, TRUE) : e \in Emails}

\* The handler suspends on await stripe.subscriptions.retrieve before it
\* reads or writes db.json
Awaits(v, rq) ==
  IF v = 1 THEN rq.ev.type = "checkout.session.completed" /\ Truthy(rq.ev.subscription)
  ELSE rq.ev.type \in RetrievingTypes /\ Truthy(eventEmail(rq.ev))

\* A handler that works on db.json as it was when the request arrived
resumeWebhook_stale(v, f, seen, t, rq, now) ==
  IF v = 1 THEN webhookV1(seen, rq, now) ELSE webhookV2(seen, t, rq)

\* The handler from its resumption (or, without an await, from its start) to
\* the end of the cache write: the reverse lookup and updateUser's readDB,
\* merge and writeDB run in one turn on db.json as it is now, not as it was
\* when the request arrived
resumeWebhook(v, f, seen, t, rq, now) ==
  IF v = 1 THEN webhookV1(f, rq, now) ELSE webhookV2(f, t, rq)

\* A request past its cache write: what it resolved and stored, and whether
\* db.json had changed since it arrived
Written(v, rq, seen, f, o) ==
  [rq |-> rq, seen |-> seen,
   pc |-> IF v = 2 /\ o.wrote = 1 THEN "supabase" ELSE "done",
   target |-> o.target, wrote |-> o.wrote,
   written |-> RecordOf(o.file, o.target), stale |-> seen # f]

\* A request suspended on subscriptions.retrieve
Suspended(rq, seen) ==
  [rq |-> rq, seen |-> seen, pc |-> "retrieve", target |-> NULL, wrote |-> 0,
   written |-> NoRecord, stale |-> FALSE]

InitCache ==
  /\ ver \in {1, 2}
  /\ clock = 0
  /\ file \in {[exists |-> FALSE, txt |-> Str("")],
                [exists |-> TRUE, txt |-> Json(<<StoredUser("a", FALSE, Str("cus1"))>>)]}
  /\ rows = IF ver = 1 THEN Table({}) ELSE Table({"u1"})
  /\ last = Idle
  /\ customers = <<>>
  /\ calls = <<>>
  /\ inflight = <<>>

\* POST /webhook arrives and runs to its first await, or to its end
RequestArrives ==
  /\ Len(inflight) < MaxRequests
  /\ \E rq \in CacheRequests(ver) :
       IF Awaits(ver, rq)
         THEN /\ inflight' = Append(inflight, Suspended(rq, file))
              /\ file' = file
         ELSE LET o == resumeWebhook(ver, file, file, rows, rq, clock)
              IN /\ file' = o.file
                 /\ inflight' = Append(inflight, Written(ver, rq, file, file, o))
  /\ UNCHANGED <<ver, clock, rows, last, customers, calls>>

\* subscriptions.retrieve has answered: the handler resumes and writes
RequestResumes ==
  /\ \E i \in DOMAIN inflight :
       /\ inflight[i].pc = "retrieve"
       /\ LET o == resumeWebhook(ver, file, inflight[i].seen, rows, inflight[i].rq, clock)
          IN /\ file' = o.file
             /\ inflight' = [inflight EXCEPT ![i] =
                               Written(ver, inflight[i].rq, inflight[i].seen, file, o)]
  /\ UNCHANGED <<ver, clock, rows, last, customers, calls>>

\* Supabase has answered updateUser's select and update (rev 2)
SupabaseAnswers ==
  /\ \E i \in DOMAIN inflight :
       /\ inflight[i].pc = "supabase"
       /\ rows' = webhookV2(file, rows, inflight[i].rq).rows
       /\ inflight' = [inflight EXCEPT ![i].pc = "done"]
  /\ UNCHANGED <<ver, clock, file, last, customers, calls>>

NextCache ==
  \/ RequestArrives
  \/ RequestResumes
  \/ SupabaseAnswers

SpecCache == InitCache /\ [][NextCache]_vars

----------------------------------------------------------------------------
(* The state machine of the two stores under updateUser (rev 2) *)

\* The patches the rev 2 webhook hands to updateUser
StorePatches ==
  {deletedPatchV2}
    \cup {retrievedPatch([customer |-> Str("cus1")], Str("sub1"),
                         [status |-> st, current_period_end |-> 86400]) :
            st \in {Str("active"), Str("canceled")}}

\* A call of updateUser: its arguments, what Supabase and the disk do, and
\* the stores before it
StoreCall(email, patch, sbOk, disk, o) ==
  [op |-> "updateUser", email |-> email, patch |-> patch, sbOk |-> sbOk, disk |-> disk,
   before |-> file, rowsBefore |-> rows, threw |-> o.threw, updates |-> o.updates]

InitStore ==
  /\ ver = 2
  /\ clock = 0
  /\ file \in InitialFiles
  /\ rows \in {Table({}), Table({"u1"}), Table(RowIds)}
  /\ last = Idle
  /\ customers = <<>>
  /\ calls = <<>>
  /\ inflight = <<>>

\* updateUser(email, patch), rev 2
UpdateUser2 ==
  /\ last = Idle
  /\ \E email \in Emails : \E patch \in StorePatches :
     \E sbOk \in BOOLEAN : \E disk \in DiskFaults :
       LET o == updateUser2Disk(file, rows, sbOk, disk, Str(email), patch)
       IN /\ file' = o.file
          /\ rows' = o.rows
          /\ last' = StoreCall(email, patch, sbOk, disk, o)
  /\ UNCHANGED <<ver, clock>>
  /\ UNCHANGED provVars

\* updateUser has returned to its caller
Returned ==
  /\ last # Idle
  /\ last' = Idle
  /\ UNCHANGED <<ver, clock, file, rows>>
  /\ UNCHANGED provVars

NextStore ==
  \/ UpdateUser2
  \/ Returned

SpecStore == InitStore /\ [][NextStore]_vars

----------------------------------------------------------------------------
(* Properties *)

Webhook == last.op = "webhook"
Verified == Webhook /\ last.rq.sigOk
Type(t) == last.rq.ev.type = t
UsersOf(f) == readDB(f).val.users
Emailed == {Str(e) : e \in Emails}

\* C1: a request to POST /webhook whose signature does not verify is answered
\* 400 and reaches no dispatcher step: no subscription is fetched and neither
\* db.json nor the Supabase table is written, whatever the event is.
C1_UnverifiedNeverDispatched ==
  (Webhook /\ ~last.rq.sigOk) =>
    /\ last.resp = 400
    /\ last.fetched = 0 /\ last.wrote = 0 /\ last.updates = 0
    /\ file = last.before
    /\ rows = last.rowsBefore

\* C1 happens: an unverified subscription-deleted event for a stored customer
\* was refused and the premium record it names is as it was
C1_Witness ==
  /\ ver = 1 /\ Webhook /\ ~last.rq.sigOk /\ last.resp = 400
  /\ Type("customer.subscription.deleted")
  /\ \E i \in 1..Len(UsersOf(file)) :
       /\ UsersOf(file)[i].stripe_customer_id = last.rq.ev.customer
       /\ UsersOf(file)[i].is_premium = Bool(TRUE)

\* C2: every dispatcher branch is idempotent under redelivery: processing the
\* event of a verified, processed request once more, now or at a later moment,
\* leaves the records as the first processing left them.
C2_RedeliveryIdempotent ==
  (ver = 1 /\ Verified /\ last.resp = 200) =>
    \A t \in {clock, clock + 1} : webhookV1(file, last.rq, t).file = file

\* The identity named by the email of a checkout event, as each revision reads it
EmailIdentity ==
  IF ver = 1 THEN last.rq.ev.customer_details_email ELSE eventEmail(last.rq.ev)

\* C3: a checkout-completed event that carries a correlation token and an email
\* naming different identities patches the record of the token identity, never
\* that of the email identity.
C3_TokenBeforeEmail ==
  (Verified /\ Type("checkout.session.completed")
     /\ Truthy(last.rq.ev.client_reference_id) /\ Truthy(EmailIdentity)
     /\ last.rq.ev.client_reference_id # EmailIdentity) =>
    /\ \A e \in Emailed :
         RecordOf(file, e) # RecordOf(last.before, e) => e = last.rq.ev.client_reference_id
    /\ \A i \in DOMAIN rows :
         rows[i] # last.rowsBefore[i] => Str(i) = last.rq.ev.client_reference_id

\* The status a verified rev 1 exchange translated, if it wrote a record
TranslatedV1 ==
  IF Type("checkout.session.completed") THEN last.rq.fetch.sub.status
  ELSE last.rq.ev.status
TranslatingV1 ==
  /\ ver = 1 /\ Verified /\ Truthy(last.target)
  /\ \/ Type("checkout.session.completed") /\ Truthy(last.rq.ev.subscription)
          /\ last.rq.fetch.ok
     \/ last.rq.ev.type \in SubscriptionTypes

\* C4: the status translator is total and deterministic: for every status, also
\* an unknown one, the empty string and an absent one, it answers a boolean
\* without raising, true exactly for active, trialing and past_due.
C4_StatusTranslatorTotal ==
  /\ \A s \in Statuses : statusIsPremium(s) \in BOOLEAN
  /\ TranslatingV1 =>
       /\ last.resp = 200
       /\ RecordOf(file, last.target).is_premium \in {Bool(TRUE), Bool(FALSE)}
       /\ RecordOf(file, last.target).is_premium = Bool(TRUE)
            <=> TranslatedV1 \in {Str("active"), Str("trialing"), Str("past_due")}

\* C4 happens: an absent status turned a premium record into a non-premium one
C4_Witness ==
  /\ TranslatingV1 /\ TranslatedV1 = UNDEF
  /\ RecordOf(last.before, last.target).is_premium = Bool(TRUE)
  /\ RecordOf(file, last.target).is_premium = Bool(FALSE)

\* C5: every path that writes is_premium from a subscription status writes the
\* same value for the same status: the checkout and subscription branches of
\* the rev 1 webhook, /confirm-session and the rev 2 webhook all write what the
\* one helper, statusIsPremium, answers.
C5_OneStatusMapping ==
  /\ TranslatingV1 =>
       RecordOf(file, last.target).is_premium = Bool(statusIsPremium(TranslatedV1))
  /\ (ver = 1 /\ last.op = "confirm" /\ last.wrote = 1
        /\ (last.rq.sub.ok \/ last.rq.listed.ok)) =>
       RecordOf(file, last.target).is_premium =
         Bool(statusIsPremium((IF last.rq.sub.ok THEN last.rq.sub ELSE last.rq.listed).sub.status))
  /\ (ver = 2 /\ Verified /\ last.rq.ev.type \in RetrievingTypes /\ last.wrote = 1) =>
       RecordOf(file, last.target).is_premium =
         Bool(statusIsPremium(last.rq.fetch.sub.status))

\* C6: after a verified subscription-deleted event for a resolvable identity
\* whose record was premium, the record has is_premium false and a null
\* subscription id and period end, and all its other fields are as before.
C6_DeletedClearsSubscription ==
  (ver \in {1, 2} /\ Verified /\ Type("customer.subscription.deleted")
     /\ Truthy(last.target) /\ last.resp = 200
     /\ RecordOf(last.before, last.target).is_premium = Bool(TRUE)) =>
    /\ RecordOf(file, last.target).is_premium = Bool(FALSE)
    /\ RecordOf(file, last.target).stripe_subscription_id = NULL
    /\ RecordOf(file, last.target).current_period_end = NULL
    /\ \A f \in RecFields \ {"is_premium", "stripe_subscription_id", "current_period_end"} :
         RecordOf(file, last.target)[f] = RecordOf(last.before, last.target)[f]

\* C7: a verified invoice-payment-failed event for a resolvable identity sets
\* grace_until to the processing time plus exactly 3 days and changes nothing
\* else: not the other fields of that record, and no other record.
C7_PaymentFailedSetsGraceOnly ==
  (ver = 1 /\ Verified /\ Type("invoice.payment_failed") /\ Truthy(last.target)) =>
    /\ last.resp = 200
    /\ RecordOf(file, last.target).grace_until
         = toISOString((last.now + 3) * 24 * 3600 * 1000)
    /\ \A f \in RecFields \ {"grace_until"} :
         RecordOf(file, last.target)[f] = RecordOf(last.before, last.target)[f]
    /\ \A e \in Emailed \ {last.target} : RecordOf(file, e) = RecordOf(last.before, e)
    /\ Len(UsersOf(file)) = Len(UsersOf(last.before))

\* C7 happens: on day 1 a payment failure gave a premium record a grace period
\* that ends on day 4, next to another record
C7_Witness ==
  /\ ver = 1 /\ Verified /\ Type("invoice.payment_failed") /\ Truthy(last.target)
  /\ last.now = 1
  /\ Len(UsersOf(file)) = 2
  /\ RecordOf(last.before, last.target).grace_until = UNDEF
  /\ RecordOf(file, last.target).is_premium = Bool(TRUE)
  /\ RecordOf(file, last.target).grace_until = toISOString(4 * 24 * 3600 * 1000)

\* A verified rev 1 event with no token and no email whose customer id equals
\* no stored stripe_customer_id
UnresolvableV1 ==
  /\ ver = 1 /\ Verified
  /\ ~Truthy(last.rq.ev.client_reference_id)
  /\ ~Truthy(last.rq.ev.customer_details_email)
  /\ \A i \in 1..Len(UsersOf(last.before)) :
       UsersOf(last.before)[i].stripe_customer_id # last.rq.ev.customer

\* C8, as stated: an unresolvable verified event of any type writes no record
\* and is answered 200, also a checkout that references a subscription.
C8_UnresolvableAcknowledged ==
  UnresolvableV1 => (last.wrote = 0 /\ file = last.before /\ last.resp = 200)

\* C8, amended: an unresolvable verified event writes no record; it is answered
\* 200, except a checkout whose referenced subscription cannot be retrieved,
\* which is answered 500.
C8_UnresolvableNeverWrites ==
  UnresolvableV1 =>
    /\ last.wrote = 0 /\ file = last.before
    /\ last.resp =
         (IF Type("checkout.session.completed") /\ Truthy(last.rq.ev.subscription)
               /\ ~last.rq.fetch.ok
          THEN 500 ELSE 200)

\* C8 happens: with records in the cache, an unresolvable checkout whose
\* subscription was retrieved was dropped with 200
C8_Witness ==
  /\ UnresolvableV1 /\ Type("checkout.session.completed")
  /\ Truthy(last.rq.ev.subscription) /\ last.rq.fetch.ok /\ last.fetched = 1
  /\ Len(UsersOf(last.before)) = 2
  /\ last.resp = 200 /\ file = last.before


\* Calls i and j, i the earlier, are sequential calls for one identity: both
\* have returned, neither they nor a call between them overlapped another
\* call, and no customer was deleted after the provider last answered i
Sequential(i, j) ==
  /\ i < j
  /\ calls[i].pc = "done" /\ calls[j].pc = "done"
  /\ calls[i].email = calls[j].email
  /\ \A k \in i..j : calls[k].alone
  /\ ~calls[i].disturbed

Unreadable(f) == ~f.exists \/ f.txt[1] # "json"

\* C10: readDB answers the empty snapshot, without raising, for a file that is
\* absent, empty, blank or malformed; an updateUser that follows such a read
\* completes and stores the patched record.
C10_ReadDBTolerant ==
  (last.op # "idle" /\ ver \in {1, 2} /\ Unreadable(last.before)) =>
    /\ readDB(last.before) = [threw |-> FALSE, val |-> EmptySnapshot]
    /\ readDB2(last.before) = [threw |-> FALSE, val |-> EmptySnapshot]
    /\ last.wrote = 1 =>
         /\ last.resp = 200
         /\ file.exists /\ file.txt[1] = "json"
         /\ Len(file.txt[2]) = 1
         /\ file.txt[2][1].email = last.target
         /\ file.txt[2][1].is_premium \in {Bool(TRUE), Bool(FALSE)}

\* C10 happens: a checkout found a malformed file and left the premium record
\* of its identity in a well-formed one
C10_Witness ==
  /\ ver = 1 /\ Verified /\ Type("checkout.session.completed")
  /\ last.before = [exists |-> TRUE, txt |-> Str("{oops")]
  /\ last.wrote = 1 /\ last.resp = 200
  /\ file.txt[1] = "json"
  /\ file.txt[2][1].email = last.target
  /\ file.txt[2][1].is_premium = Bool(TRUE)

----------------------------------------------------------------------------
\* The patches the handlers hand to updateUser, one of each shape
MergePatches ==
  {[grace_until |-> toISOString(GraceMs)],
   [stripe_customer_id |-> Str("cus1")],
   deletedPatchV1,
   deletedPatchV2,
   subscriptionPatchV1([status |-> Str("active"), current_period_end |-> 86400,
                        id |-> Str("sub1")])}

\* File after holds, for email, the patch merged into the record of file
\* before: the patch's value for each field it names, the previous value for
\* each other field, and every other record as it was
Merged(before, after, email, patch) ==
  LET old == RecordOf(before, Str(email))
      new == RecordOf(after, Str(email))
  IN /\ \A k \in DOMAIN patch : new[k] = patch[k]
     /\ Has(UsersOf(before), email) =>
          \A k \in RecFields \ DOMAIN patch : new[k] = old[k]
     /\ new.email = Str(email)
     /\ \A e \in Emails \ {email} : RecordOf(after, Str(e)) = RecordOf(before, Str(e))
     /\ Len(UsersOf(after))
          = Len(UsersOf(before)) + (IF Has(UsersOf(before), email) THEN 0 ELSE 1)

\* C11: updateUser is a partial merge: afterwards the record of the identity
\* has the patch's value for every field the patch names and its previous
\* value for every other field, and the records of all other identities are
\* unchanged, whatever file the requests so far have left; a handler that
\* wrote one record changed no other.
C11_UpdateUserPartialMerge ==
  /\ (ver = 1 /\ last.op = "idle") =>
       \A e \in Emails : \A p \in MergePatches :
         /\ ~updateUser(file, e, p).threw
         /\ Merged(file, updateUser(file, e, p).file, e, p)
  /\ (ver = 2 /\ last.op = "idle") =>
       \A e \in Emails : \A p \in MergePatches : \A sbOk \in BOOLEAN :
         /\ ~updateUser2(file, rows, sbOk, Str(e), p).threw
         /\ Merged(file, updateUser2(file, rows, sbOk, Str(e), p).file, e, p)
  /\ (ver \in {1, 2} /\ last.op # "idle" /\ last.wrote = 1) =>
       /\ \A e \in Emailed \ {last.target} : RecordOf(file, e) = RecordOf(last.before, e)
       /\ Len(UsersOf(file)) <= Len(UsersOf(last.before)) + 1

\* C11 happens: a subscription event changed is_premium of a record and kept
\* its grace_until and customer id, next to another record
C11_Witness ==
  /\ ver = 1 /\ Verified /\ last.rq.ev.type \in SubscriptionTypes /\ last.wrote = 1
  /\ Len(UsersOf(file)) = 2
  /\ RecordOf(last.before, last.target).grace_until # UNDEF
  /\ RecordOf(file, last.target).grace_until = RecordOf(last.before, last.target).grace_until
  /\ RecordOf(file, last.target).stripe_customer_id = last.rq.ev.customer
  /\ RecordOf(file, last.target).is_premium # RecordOf(last.before, last.target).is_premium

----------------------------------------------------------------------------
\* The event-type-specific processing of the request raised an exception: the
\* provider refused the subscription the handler asked it for
Raised ==
  /\ last.fetched = 1
  /\ IF ver = 1 THEN ~last.rq.fetch.ok
     ELSE retrieve(Or(last.rq.ev.subscription, last.rq.ev.id), last.rq.fetch).threw

\* C12: every request to POST /webhook gets exactly one response: 400 if and
\* only if the signature did not verify, 500 if and only if it verified and
\* the processing of the event raised an exception, and 200 otherwise.
C12_WebhookResponseCodes ==
  Webhook =>
    /\ last.resp \in {200, 400, 500}
    /\ last.resp = 400 <=> ~last.rq.sigOk
    /\ last.resp = 500 <=> (last.rq.sigOk /\ Raised)

----------------------------------------------------------------------------
\* Every premium record of the cache has a period end
PremiumHasPeriodEnd ==
  \A i \in 1..Len(UsersOf(file)) :
    UsersOf(file)[i].is_premium = Bool(TRUE) =>
      UsersOf(file)[i].current_period_end[1] = "iso"

\* The rev 1 exchange wrote is_premium and current_period_end of its identity
WrotePeriodEndV1 ==
  \/ TranslatingV1 /\ last.wrote = 1
  \/ /\ ver = 1 /\ last.op = "confirm" /\ last.wrote = 1
     /\ (last.rq.sub.ok \/ last.rq.listed.ok)

\* C13: in every reachable state every record with is_premium true has a
\* non-null current_period_end, and that value was later than the clock at
\* the moment the record was written.
C13_PremiumImpliesFuturePeriodEnd ==
  /\ ver \in {1, 2} => PremiumHasPeriodEnd
  /\ (WrotePeriodEndV1 /\ RecordOf(file, last.target).is_premium = Bool(TRUE)) =>
       RecordOf(file, last.target).current_period_end[2] > NowMs(last.now)

----------------------------------------------------------------------------
\* C14: on every write path the cache write of a patch comes before the
\* write to the authoritative store is attempted, and the cache keeps the
\* patched record when that write fails or finds no row: a webhook that sent
\* an update to Supabase has written db.json, and what rev 2 wrote to db.json
\* stays whatever Supabase answered.
C14_CacheWrittenBeforeStore ==
  /\ (Webhook /\ ver \in {2, 3, 4} /\ last.updates >= 1) =>
       last.wrote = 1
  /\ (Verified /\ ver = 2 /\ last.wrote = 1) =>
       /\ RecordOf(file, last.target).email = last.target
       /\ RecordOf(file, last.target).is_premium \in {Bool(TRUE), Bool(FALSE)}
       /\ last.rq.ev.type \in RetrievingTypes =>
            RecordOf(file, last.target).stripe_customer_id = last.rq.ev.customer

----------------------------------------------------------------------------
\* The rows of the call's email
RowOfCall(t) ==
  {i \in DOMAIN t : t[i].email = Str(last.email)}

\* C15: a failure of one storage backend never blocks the write to the other:
\* when the cache read or write fails, updateUser still sends the update to
\* Supabase for the row of the email; when Supabase fails, the cache holds
\* the merged record; and updateUser never raises to its caller.
C15_BackendsFailIndependently ==
  last.op = "updateUser" =>
    /\ ~last.threw
    /\ (last.sbOk /\ RowOfCall(last.rowsBefore) # {}) =>
         /\ last.updates = 1
         /\ \A i \in RowOfCall(rows) : \A k \in DOMAIN last.patch :
              rows[i][k] = last.patch[k]
    /\ last.disk = "none" => Merged(last.before, file, last.email, last.patch)
    /\ last.disk = "write" => file = last.before

\* C15 happens: the disk refused the write, and the row of the email was
\* still updated
C15_Witness ==
  /\ last.op = "updateUser" /\ last.disk = "write" /\ last.sbOk
  /\ rows # last.rowsBefore /\ file = last.before
  /\ \E i \in RowOfCall(rows) : rows[i].is_premium = Bool(TRUE)

----------------------------------------------------------------------------
\* A verified checkout that references a subscription the provider failed to
\* return
CheckoutFetchFailed ==
  /\ Verified /\ Type("checkout.session.completed")
  /\ Truthy(last.rq.ev.subscription) /\ ~last.rq.fetch.ok

\* C16: when a verified checkout-completed event references a subscription
\* and fetching it fails, the webhook answers 500 and writes no record, and
\* the same event redelivered once the provider answers applies the patch.
C16_FetchFailureIsRetried ==
  (CheckoutFetchFailed /\ ver \in {1, 3}) =>
    /\ last.resp = 500
    /\ last.wrote = 0 /\ last.updates = 0
    /\ file = last.before /\ rows = last.rowsBefore
    /\ ver = 1 =>
         \A sub \in SubObjects :
           LET again == webhookV1(file, [last.rq EXCEPT !.fetch = [ok |-> TRUE, sub |-> sub]],
                                  clock)
           IN /\ again.resp = 200
              /\ Truthy(again.target) =>
                   RecordOf(again.file, again.target).is_premium
                     = Bool(statusIsPremium(sub.status))

----------------------------------------------------------------------------
\* The value a field of the identity's record had before the exchange, or
\* its creation default for a new record
PreviousOrDefault(k) ==
  IF Has(UsersOf(last.before), last.target[2])
    THEN RecordOf(last.before, last.target)[k]
    ELSE DefaultUser(last.target[2])[k]

\* A verified rev 1 checkout that names no subscription and was mapped to an
\* identity
CheckoutWithoutSubscription ==
  /\ ver = 1 /\ Verified /\ Type("checkout.session.completed")
  /\ ~Truthy(last.rq.ev.subscription) /\ Truthy(last.target)

\* C17: a verified checkout-completed event that resolves to an identity but
\* references no subscription changes only stripe_customer_id of that
\* identity's record: is_premium, current_period_end, stripe_subscription_id
\* and grace_until keep their previous values, or their creation defaults
\* for a new record.
C17_CheckoutWithoutSubscription ==
  CheckoutWithoutSubscription =>
    /\ last.resp = 200 /\ last.wrote = 1 /\ last.fetched = 0
    /\ RecordOf(file, last.target).stripe_customer_id = last.rq.ev.customer
    /\ \A k \in RecFields \ {"stripe_customer_id"} :
         RecordOf(file, last.target)[k] = PreviousOrDefault(k)
    /\ \A e \in Emailed \ {last.target} : RecordOf(file, e) = RecordOf(last.before, e)

\* C17 happens: a premium record without a customer id got one and stayed
\* premium, with its period end and subscription id
C17_Witness ==
  /\ CheckoutWithoutSubscription
  /\ RecordOf(last.before, last.target).is_premium = Bool(TRUE)
  /\ RecordOf(last.before, last.target).stripe_customer_id = NULL
  /\ RecordOf(file, last.target).stripe_customer_id = Str("cus1")
  /\ RecordOf(file, last.target).is_premium = Bool(TRUE)
  /\ RecordOf(file, last.target).current_period_end[1] = "iso"
  /\ RecordOf(file, last.target).stripe_subscription_id = Str("sub1")

----------------------------------------------------------------------------
\* The exchange created the record of its identity
CreatedRecord ==
  /\ ver \in {1, 2} /\ last.op # "idle" /\ last.wrote = 1 /\ IsStr(last.target)
  /\ ~Has(UsersOf(last.before), last.target[2])

ProviderFields ==
  {"current_period_end", "stripe_customer_id", "stripe_subscription_id"}

\* C18: the first patch applied for a previously unknown identity creates a
\* record whose fields the patch does not name have the defaults
\* is_premium false and current_period_end, stripe_customer_id and
\* stripe_subscription_id null, on every write path that can create a record.
C18_NewRecordHasDefaults ==
  CreatedRecord =>
    /\ RecordOf(file, last.target).is_premium \in {Bool(TRUE), Bool(FALSE)}
    /\ \A k \in ProviderFields : RecordOf(file, last.target)[k] # UNDEF
    /\ (last.op = "webhook" /\ Type("customer.subscription.deleted")) =>
         /\ RecordOf(file, last.target).current_period_end = NULL
         /\ RecordOf(file, last.target).stripe_customer_id = NULL
    /\ (last.op = "webhook" /\ ver = 1 /\ ~Truthy(last.rq.ev.subscription)) =>
         /\ RecordOf(file, last.target).is_premium = Bool(FALSE)
         /\ RecordOf(file, last.target).current_period_end = NULL
         /\ RecordOf(file, last.target).stripe_subscription_id = NULL

\* The same for provisioning: a call that has returned for an identity
\* without a record left a record with the defaults
ProvisionedRecordHasDefaults ==
  \A i \in DOMAIN calls :
    (calls[i].pc = "done" /\ calls[i].user = Obj([email |-> Str(calls[i].email)])) =>
      /\ RecordOf(file, Str(calls[i].email)).is_premium = Bool(FALSE)
      /\ RecordOf(file, Str(calls[i].email)).current_period_end = NULL
      /\ RecordOf(file, Str(calls[i].email)).stripe_subscription_id = NULL

----------------------------------------------------------------------------
\* Call i found at step 1 that its stored id is not live, and has got past
\* step 1
FoundStale(i) ==
  /\ IsStr(calls[i].stale)
  /\ calls[i].pc \in {"list", "create", "created", "done", "failed"}

\* The id a call found stale is not what the call returns
StaleIdNotReturned ==
  \A i \in DOMAIN calls :
    (FoundStale(i) /\ calls[i].pc = "done") => calls[i].ret # calls[i].stale

\* C19: once ensureStripeCustomerForEmail has found the stored customer id
\* not live (the provider knows no such customer, or reports it deleted), the
\* record no longer holds that id while the search and create steps run and
\* after the call has ended, whether it returned or a later step failed, and
\* the id returned differs from the stale one.
C19_StaleIdCleared ==
  \A i \in DOMAIN calls :
    FoundStale(i) =>
      /\ RecordOf(file, Str(calls[i].email)).stripe_customer_id # calls[i].stale
      /\ calls[i].pc = "done" => calls[i].ret # calls[i].stale

----------------------------------------------------------------------------
\* The customers of the provider, deleted or not, created for this email
CustomersOf(email) == {k \in DOMAIN customers : customers[k].email = email}

\* Calls i and j for one identity raced: each began with no stored customer
\* id, each passed the search without finding a customer and created one,
\* both have returned, and i returned after j
Raced(i, j) ==
  /\ i # j
  /\ calls[i].email = calls[j].email
  /\ \A k \in {i, j} :
       /\ calls[k].pc = "done" /\ calls[k].step = 3
       /\ ~Truthy(calls[k].user.stripe_customer_id) /\ calls[k].stale = NULL
  /\ calls[j].end < calls[i].end

\* No other call for the identity of call i has stored a customer id after i
\* did: such a call returns at step 2 or 3, after i
LastWriter(i) ==
  \A k \in DOMAIN calls :
    (k # i /\ calls[k].email = calls[i].email /\ calls[k].step \in {2, 3}) =>
      calls[k].end < calls[i].end

\* C20: when two overlapping requests for one identity both pass the search
\* before either creates, the provider holds two customers for the identity,
\* and the record holds the id stored by the later of the two persisting
\* writes.
C20_RaceCreatesDuplicates ==
  \A i \in DOMAIN calls : \A j \in DOMAIN calls :
    Raced(i, j) =>
      /\ calls[i].ret # calls[j].ret
      /\ \A k \in {i, j} : Known(customers, calls[k].ret) \in CustomersOf(calls[k].email)
      /\ LastWriter(i) =>
           RecordOf(file, Str(calls[i].email)).stripe_customer_id = calls[i].ret

\* C20 happens: the identity had no record and the provider no customer;
\* call 1 created the first customer and call 2 the second, call 2 stored
\* its id first and call 1 after it, so the record holds the first customer
C20_Witness ==
  /\ Len(calls) >= 2 /\ Raced(1, 2) /\ LastWriter(1)
  /\ calls[1].user = Obj([email |-> Str(calls[1].email)])
  /\ Len(customers) = 2 /\ CustomersOf(calls[1].email) = {1, 2}
  /\ \A k \in {1, 2} : ~customers[k].deleted
  /\ calls[1].ret = CustomerId(1) /\ calls[2].ret = CustomerId(2)
  /\ RecordOf(file, Str(calls[1].email)).stripe_customer_id = CustomerId(1)

----------------------------------------------------------------------------
\* The rows the update of the exchange was applied to: Supabase answered,
\* and the row has the id the exchange names
AppliedTo(i) ==
  /\ last.updates = 1 /\ last.rq.sbOk /\ rows[i].id = last.target

\* The exchange is a Stripe event applied by token (client_reference_id)
StripeByToken ==
  /\ last.op = "webhook" /\ ver \in {3, 4} /\ last.resp = 200
  /\ Truthy(last.rq.ev.client_reference_id)

\* What an Apple notification does: it writes only for a token, and sets
\* is_premium exactly for status 1
AppleWritesByToken ==
  last.op = "apple" =>
    /\ ~Truthy(last.rq.transaction.appAccountToken) => rows = last.rowsBefore
    /\ \A i \in DOMAIN rows :
         IF AppliedTo(i)
           THEN /\ rows[i].platform = Str("apple")
                /\ rows[i].is_premium = Bool(last.rq.transaction.status = 1)
           ELSE rows[i] = last.rowsBefore[i]

\* C21: platform names the provider whose notification last updated the
\* row: after a Stripe event applied by token it is 'stripe', after an Apple
\* notification 'apple'; an Apple notification writes only when it carries an
\* appAccountToken and sets is_premium to true exactly for status 1.
C21_PlatformNamesLastProvider ==
  /\ AppleWritesByToken
  /\ StripeByToken =>
       \A i \in DOMAIN rows : AppliedTo(i) => rows[i].platform = Str("stripe")

----------------------------------------------------------------------------
\* The exchange called updateUser (rev 2 or 4) for an email no row has
UpdateUserWithoutRow ==
  /\ last.op = "webhook" /\ ver \in {2, 4} /\ Verified
  /\ Truthy(eventEmail(last.rq.ev))
  /\ ver = 4 => ~Truthy(last.rq.ev.client_reference_id)
  /\ \/ /\ last.rq.ev.type \in RetrievingTypes
        /\ ~retrieve(Or(last.rq.ev.subscription, last.rq.ev.id), last.rq.fetch).threw
     \/ ver = 2 /\ Type("customer.subscription.deleted")
  /\ \A i \in DOMAIN last.rowsBefore :
       last.rowsBefore[i].email # eventEmail(last.rq.ev)

\* Nothing is sent to the authoritative store for an email without a row,
\* no row is created, and updateUser does not raise
UpdateOnly ==
  UpdateUserWithoutRow =>
    /\ last.updates = 0
    /\ rows = last.rowsBefore
    /\ last.resp = 200

\* C22: for an email-keyed identity without a row, updateUser sends no update
\* to the authoritative store and creates no row, does not raise, and the
\* local cache still receives the upserted record.
C22_UpdateOnlyStore ==
  UpdateUserWithoutRow =>
    /\ last.updates = 0
    /\ rows = last.rowsBefore
    /\ last.resp = 200
    /\ last.wrote = 1
    /\ RecordOf(file, eventEmail(last.rq.ev)).email = eventEmail(last.rq.ev)
    /\ RecordOf(file, eventEmail(last.rq.ev)).is_premium \in {Bool(TRUE), Bool(FALSE)}

----------------------------------------------------------------------------
\* The fields of a record the webhook and confirm-session handlers own
EntitlementFields ==
  {"is_premium", "current_period_end", "stripe_subscription_id", "grace_until"}

\* In this step call i stores a customer id (step 2 or 3) into a record that
\* exists
Persists(i) ==
  /\ calls[i].pc \in {"list", "created"}
  /\ calls'[i].pc = "done" /\ calls'[i].step \in {2, 3}
  /\ RecordOf(file, Str(calls[i].email)).email = Str(calls[i].email)

\* The step leaves the entitlement fields of the record of call i as they are
KeepsEntitlement(i) ==
  \A k \in EntitlementFields :
    RecordOf(file', Str(calls[i].email))[k] = RecordOf(file, Str(calls[i].email))[k]

----------------------------------------------------------------------------
\* The identities whose record in the cache holds this customer id
HoldersOf(f, id) ==
  {e \in Emails : RecordOf(f, Str(e)).stripe_customer_id = id}

\* C24: in every reachable state of the cache at most one record holds any
\* given non-null stripe_customer_id, so that the reverse lookup of an event's
\* customer resolves to at most one identity.
C24_ReverseLookupUnambiguous ==
  \A id \in CustomerIds : Cardinality(HoldersOf(file, id)) <= 1

----------------------------------------------------------------------------
\* Request i has written db.json
HasWritten(i) == inflight[i].pc \in {"supabase", "done"} /\ inflight[i].wrote = 1

\* No other request has written the record request i patched
OnlyWriterOfRecord(i) ==
  \A j \in DOMAIN inflight :
    (j # i /\ HasWritten(j)) => inflight[j].target # inflight[i].target

\* C25: the reverse lookup and the read-merge-write of updateUser run with no
\* suspension between them, so requests that overlap and patch different
\* identities lose nothing: the record a request stored is in db.json, as the
\* request stored it, whatever other requests wrote for other identities.
C25_NoLostCacheWrite ==
  \A i \in DOMAIN inflight :
    (HasWritten(i) /\ OnlyWriterOfRecord(i)) =>
      /\ inflight[i].written.email = inflight[i].target
      /\ RecordOf(file, inflight[i].target) = inflight[i].written

\* C25 happens: two requests for different identities overlapped, the one
\* wrote while the other was suspended, so the other wrote over a db.json
\* that had changed since it arrived; both have finished and both records
\* are there
C25_Witness ==
  /\ Len(inflight) = 2
  /\ \A i \in {1, 2} : inflight[i].pc = "done" /\ inflight[i].wrote = 1
  /\ inflight[1].target # inflight[2].target
  /\ \E i \in {1, 2} : inflight[i].stale
  /\ \A i \in {1, 2} :
       /\ RecordOf(file, inflight[i].target) = inflight[i].written
       /\ inflight[i].written.is_premium = Bool(TRUE)

====
